---- MODULE Spec2Model ----
(***************************************************************************)
(* Model of native/setup-sdk.py: the Ultralight SDK setup script.          *)
(*                                                                         *)
(* File names are sequences of one-character strings, so that glob         *)
(* matching, Path.suffix and the ordering used by sorted() are computed    *)
(* character by character.  The writable part of the disk (the sdk         *)
(* directory and the temporary directories) is a set of paths, a path      *)
(* being a sequence of component names; the searched archive directories   *)
(* are flat listings of file names.                                        *)
(***************************************************************************)
EXTENDS Integers, Sequences, FiniteSets, TLC

VARIABLES
    pc,            \* position of the program
    args,          \* parsed command line (argparse namespace)
    listing,       \* search directory -> set of file names, or Missing
    fs0,           \* the writable disk as it was when the run started
    fs,            \* the writable disk now
    fs_in,         \* the writable disk when setup_platform was entered
    archives,      \* main: the insertion-ordered dict platform -> archive
    cur,           \* main: index of the entry the install loop is at
    success,       \* main: the success flag
    rets,          \* the values setup_platform has returned, in call order
    exit_code,     \* exit status of the process, -1 while running
    platform,      \* setup_platform: its first argument
    archive_path,  \* setup_platform: its second argument
    stdin_line,    \* setup_platform: the line input() read, Unread if none
    temp,          \* setup_platform: the scratch directory, NoDir if none
    sdk_root,      \* setup_platform / find_sdk_root: the root found
    exc,           \* setup_platform: an exception is propagating
    ret,           \* setup_platform: the value returned
    made,          \* number of scratch directories created so far
    found          \* find_archives: the dict returned

vars == <<pc, args, listing, fs0, fs, fs_in, archives, cur, success, rets,
          exit_code, platform, archive_path, stdin_line, temp, sdk_root, exc,
          ret, made, found>>

----------------------------------------------------------------------------
(* Characters and strings *)

\* The characters file names are made of, in code point order.
Alphabet ==
    <<"-", ".", "0", "1", "2", "3", "4", "5", "6", "7", "8", "9",
      "a", "b", "c", "d", "e", "f", "g", "h", "i", "j", "k", "l", "m",
      "n", "o", "p", "q", "r", "s", "t", "u", "v", "w", "x", "y", "z">>

Ord(c) == CHOOSE i \in 1..Len(Alphabet) : Alphabet[i] = c

\* str.__lt__: lexicographic comparison by code point.
RECURSIVE StrLess(_, _)
StrLess(a, b) ==
    IF b = <<>> THEN FALSE
    ELSE IF a = <<>> THEN TRUE
    ELSE IF Head(a) = Head(b) THEN StrLess(Tail(a), Tail(b))
    ELSE Ord(Head(a)) < Ord(Head(b))

\* fnmatch of one path component: "*" matches any run of characters, every
\* other character of the patterns used here matches itself.
RECURSIVE GlobMatch(_, _)
GlobMatch(pat, s) ==
    IF pat = <<>> THEN s = <<>>
    ELSE IF Head(pat) = "*"
         THEN GlobMatch(Tail(pat), s) \/ (s # <<>> /\ GlobMatch(pat, Tail(s)))
         ELSE s # <<>> /\ Head(s) = Head(pat) /\ GlobMatch(Tail(pat), Tail(s))

\* str.rfind("."): the last index of a dot, 0-based, -1 if there is none.
RFindDot(name) ==
    LET at == {i \in 1..Len(name) : name[i] = "."}
    IN  IF at = {} THEN -1 ELSE (CHOOSE i \in at : \A j \in at : j <= i) - 1

\* PurePath.suffix
Suffix(name) ==
    LET i == RFindDot(name)
    IN  IF 0 < i /\ i < Len(name) - 1 THEN SubSeq(name, i + 1, Len(name))
        ELSE <<>>

EXT_7Z == <<".", "7", "z">>
EXT_ZIP == <<".", "z", "i", "p">>

----------------------------------------------------------------------------
(* The platform table *)

Platforms == <<"win-x64", "linux-x64", "mac-x64", "mac-arm64">>

PlatformSet == {Platforms[i] : i \in 1..Len(Platforms)}

archive_patterns ==
    [p \in PlatformSet |->
        CASE p = "win-x64" ->
               << <<"*", "w", "i", "n", "*", "x", "6", "4", "*">>,
                  <<"*", "w", "i", "n", "*", "6", "4", "*">>,
                  <<"*", "w", "i", "n", "d", "o", "w", "s", "*">> >>
          [] p = "linux-x64" ->
               << <<"*", "l", "i", "n", "u", "x", "*", "x", "6", "4", "*">>,
                  <<"*", "l", "i", "n", "u", "x", "*", "6", "4", "*">> >>
          [] p = "mac-x64" ->
               << <<"*", "m", "a", "c", "*", "x", "6", "4", "*">>,
                  <<"*", "m", "a", "c", "o", "s", "*", "x", "6", "4", "*">>,
                  <<"*", "o", "s", "x", "*", "x", "6", "4", "*">> >>
          [] p = "mac-arm64" ->
               << <<"*", "m", "a", "c", "*", "a", "r", "m", "6", "4", "*">>,
                  <<"*", "m", "a", "c", "o", "s", "*", "a", "r", "m", "6", "4", "*">>,
                  <<"*", "m", "a", "c", "*", "a", "a", "r", "c", "h", "6", "4", "*">>,
                  <<"*", "o", "s", "x", "*", "a", "r", "m", "6", "4", "*">> >>]

\* The extensions find_archives tries, in its order.
Exts == <<EXT_7Z, EXT_ZIP>>

test_file == <<"include", "Ultralight", "Ultralight.h">>

SDK_DIR == <<"sdk">>

----------------------------------------------------------------------------
(* Insertion-ordered dicts platform -> archive path: sequences of entries *)

\* A path of an archive file: the directory it is in and its file name.
NoPath == [dir |-> "", name |-> <<>>]

DictHas(d, p) == \E i \in 1..Len(d) : d[i].platform = p

DictGet(d, p) ==
    IF DictHas(d, p)
    THEN d[CHOOSE i \in 1..Len(d) : d[i].platform = p].path
    ELSE NoPath

\* d[p] = v: a new key goes last, an existing key keeps its place.
DictSet(d, p, v) ==
    IF DictHas(d, p)
    THEN [i \in 1..Len(d) |->
             IF d[i].platform = p THEN [platform |-> p, path |-> v] ELSE d[i]]
    ELSE Append(d, [platform |-> p, path |-> v])

----------------------------------------------------------------------------
(* find_archives *)

\* search_dir.glob(pattern): the names of the listing the pattern matches.
Glob(files, pat) == {n \in files : GlobMatch(pat, n)}

\* sorted(): the names in ascending order.
RECURSIVE Sorted(_)
Sorted(S) ==
    IF S = {} THEN <<>>
    ELSE LET least == CHOOSE x \in S : \A y \in S : y = x \/ StrLess(x, y)
         IN  <<least>> \o Sorted(S \ {least})

PickMatch_First(matches) == Sorted(matches)[1]

\* sorted(matches)[-1]
PickMatch(matches) == Sorted(matches)[Cardinality(matches)]

\* The loop over the extensions for one pattern, from extension j on:
\* the name chosen, or <<>> when no extension matched.
RECURSIVE ExtLoop(_, _, _)
ExtLoop(files, pattern, j) ==
    IF j > Len(Exts) THEN <<>>
    ELSE LET matches == Glob(files, pattern \o Exts[j])
         IN  IF matches # {} THEN PickMatch(matches)
             ELSE ExtLoop(files, pattern, j + 1)

\* The loop over the patterns of platform p, from pattern i on.
RECURSIVE PatternLoop(_, _, _)
PatternLoop(files, p, i) ==
    IF i > Len(archive_patterns[p]) THEN <<>>
    ELSE LET hit == ExtLoop(files, archive_patterns[p][i], 1)
         IN  IF hit # <<>> THEN hit ELSE PatternLoop(files, p, i + 1)

\* The loop over the platforms, from platform k on, building the dict.
RECURSIVE PlatformLoop(_, _, _, _)
PlatformLoop(dir, files, k, acc) ==
    IF k > Len(Platforms) THEN acc
    ELSE LET hit == PatternLoop(files, Platforms[k], 1)
         IN  PlatformLoop(dir, files, k + 1,
                 IF hit # <<>>
                 THEN DictSet(acc, Platforms[k], [dir |-> dir, name |-> hit])
                 ELSE acc)

find_archives(ls, dir) ==
    IF ~ls[dir].exists THEN <<>>
    ELSE PlatformLoop(dir, ls[dir].files, 1, <<>>)

----------------------------------------------------------------------------
(* The writable disk *)

NoDir == <<>>

\* Names of plain files; every other name is the name of a directory.
FileNames == {"Ultralight.h", "README"}

IsPrefix(d, p) == Len(d) <= Len(p) /\ SubSeq(p, 1, Len(d)) = d

Exists(f, p) == p \in f

IsDir(f, p) == p \in f /\ p # <<>> /\ p[Len(p)] \notin FileNames

\* Path.iterdir(): the entries of d, in no particular order.
Children(f, d) == {p \in f : Len(p) = Len(d) + 1 /\ IsPrefix(d, p)}

\* Path.mkdir(parents=True, exist_ok=True)
Mkdir(f, d) == f \cup {SubSeq(d, 1, k) : k \in 1..Len(d)}

\* shutil.rmtree
Rmtree(f, d) == {p \in f : ~IsPrefix(d, p)}

\* An extracted tree (a set of relative paths) written under d.
Plant(f, d, tree) == f \cup {d \o t : t \in tree}

\* shutil.move(src, dst): where src ends up ...
RealDst(f, src, dst) ==
    IF IsDir(f, dst) THEN dst \o <<src[Len(src)]>> ELSE dst

\* ... whether it raises shutil.Error (destination path already exists) ...
MoveRaises(f, src, dst) == IsDir(f, dst) /\ Exists(f, RealDst(f, src, dst))

\* ... and the disk after the rename.
Move(f, src, dst) ==
    LET real_dst == RealDst(f, src, dst)
        moved == {p \in f : IsPrefix(src, p)}
    IN  (f \ moved)
          \cup {real_dst \o SubSeq(p, Len(src) + 1, Len(p)) : p \in moved}

----------------------------------------------------------------------------
(* find_sdk_root *)

HasMarker(f, d) == Exists(f, d \o test_file)

\* The inner loop over the entries of a subdirectory that are still to be
\* visited.  iterdir() yields them in an order the file system chooses, so
\* the loop's result is one of a set: the directory returned, or NoDir when
\* the loop ends without returning.
RECURSIVE SubsubdirLoop(_, _)
SubsubdirLoop(f, todo) ==
    IF todo = {} THEN {NoDir}
    ELSE UNION {IF IsDir(f, subsubdir) /\ HasMarker(f, subsubdir)
                THEN {subsubdir}
                ELSE SubsubdirLoop(f, todo \ {subsubdir}) : subsubdir \in todo}

\* The outer loop over the entries of the extracted directory.
RECURSIVE SubdirLoop(_, _)
SubdirLoop(f, todo) ==
    IF todo = {} THEN {NoDir}
    ELSE UNION {IF ~IsDir(f, subdir) THEN SubdirLoop(f, todo \ {subdir})
                ELSE IF HasMarker(f, subdir) THEN {subdir}
                ELSE LET inner == SubsubdirLoop(f, Children(f, subdir))
                     IN  (inner \ {NoDir})
                           \cup (IF NoDir \in inner
                                 THEN SubdirLoop(f, todo \ {subdir})
                                 ELSE {}) : subdir \in todo}

find_sdk_root_OneLevel(f, extracted_dir) ==
    IF HasMarker(f, extracted_dir) THEN {extracted_dir}
    ELSE LET hits == {d \in Children(f, extracted_dir) :
                         IsDir(f, d) /\ HasMarker(f, d)}
         IN  IF hits = {} THEN {NoDir} ELSE hits

\* The directories find_sdk_root(extracted_dir) can return (NoDir for None).
find_sdk_root(f, extracted_dir) ==
    IF HasMarker(f, extracted_dir) THEN {extracted_dir}
    ELSE SubdirLoop(f, Children(f, extracted_dir))

----------------------------------------------------------------------------
(* setup_platform *)

\* str.strip() and str.lower() of the line input() returns.
Whitespace == {" "}

RECURSIVE LStrip(_)
LStrip(s) == IF s # <<>> /\ Head(s) \in Whitespace THEN LStrip(Tail(s)) ELSE s

RECURSIVE RStrip(_)
RStrip(s) ==
    IF s # <<>> /\ s[Len(s)] \in Whitespace
    THEN RStrip(SubSeq(s, 1, Len(s) - 1))
    ELSE s

Strip(s) == RStrip(LStrip(s))

LowerChar(c) == CASE c = "Y" -> "y" [] c = "N" -> "n" [] OTHER -> c

Lower(s) == [i \in 1..Len(s) |-> LowerChar(s[i])]

Declined_EmptyOnly(line) == Lower(Strip(line)) = <<>>

\* response = input(...).strip().lower(); response != 'y' means "skip".
Declined(line) == Lower(Strip(line)) # <<"y">>

target_dir(p) == SDK_DIR \o <<p>>

\* The names tempfile gives the scratch directories, in creation order.
TmpNames == <<"tmp1", "tmp2", "tmp3", "tmp4">>

TmpRoot == <<"tmp">>

Cleanup_Leak(f, t) == f

\* TemporaryDirectory.cleanup(): remove the directory if it is still there.
Cleanup(f, t) == IF Exists(f, t) THEN Rmtree(f, t) ELSE f

Format_ElseZip(path) ==
    IF Suffix(path.name) = EXT_7Z THEN "7z" ELSE "zip"

\* extract_archive's dispatch on archive_path.suffix
Format(path) ==
    LET suffix == Suffix(path.name)
    IN  IF suffix = EXT_7Z THEN "7z"
        ELSE IF suffix = EXT_ZIP THEN "zip"
        ELSE "unknown"

\* The marker file with the directories above it.
SdkTree == {SubSeq(test_file, 1, k) : k \in 1..Len(test_file)}

\* A tree with the SDK below the wrapper directories wrap.
Wrapped(wrap) ==
    {SubSeq(wrap, 1, k) : k \in 1..Len(wrap)} \cup {wrap \o t : t \in SdkTree}

\* What an archive can hold: the SDK at depth 0, 1, 2 or 3.
Trees ==
    {Wrapped(<<>>), Wrapped(<<"ultralight">>), Wrapped(<<"pkg", "ultralight">>),
     Wrapped(<<"x", "pkg", "ultralight">>)}

\* What the operator can type at the overwrite prompt.
Answers == {<<"y">>, <<"Y">>, <<" ", "y">>, <<"n">>, <<>>, <<"y", "e", "s">>}

Unread == <<"<no input>">>

MainVars == <<args, listing, archives, cur, success, rets, exit_code, found>>

\* Lines 125-135: the check for an existing install and the overwrite prompt.
SpCheck ==
    /\ pc = "sp_check"
    /\ IF Exists(fs, target_dir(platform) \o test_file)
       THEN \E line \in Answers :
              /\ stdin_line' = line
              /\ IF Declined(line)
                 THEN /\ ret' = TRUE
                      /\ pc' = "sp_ret"
                      /\ fs' = fs
                 ELSE /\ fs' = Rmtree(fs, target_dir(platform))
                      /\ pc' = "sp_enter"
                      /\ ret' = ret
       ELSE /\ pc' = "sp_enter"
            /\ UNCHANGED <<stdin_line, fs, ret>>
    /\ UNCHANGED <<temp, sdk_root, exc, made, platform, archive_path, fs0>>
    /\ UNCHANGED <<MainVars, fs_in>>

\* Lines 138-139: entering the with block creates the scratch directory.
SpEnter ==
    /\ pc = "sp_enter"
    /\ made < Len(TmpNames)
    /\ temp' = TmpRoot \o <<TmpNames[made + 1]>>
    /\ made' = made + 1
    /\ fs' = Mkdir(fs, temp')
    /\ pc' = "sp_extract"
    /\ UNCHANGED <<stdin_line, sdk_root, exc, ret, platform, archive_path,
                   fs0>>
    /\ UNCHANGED <<MainVars, fs_in>>

\* Lines 141-142 with extract_archive (58-94).  What the archive holds,
\* whether find_7z() finds an executable and whether the extractor succeeds
\* are read from the environment.
SpExtract ==
    /\ pc = "sp_extract"
    /\ \E tree \in Trees, sevenz \in BOOLEAN, ok \in BOOLEAN :
         LET fmt == Format(archive_path)
         IN  IF fmt = "unknown" \/ (fmt = "7z" /\ ~sevenz)
             THEN /\ ret' = FALSE
                  /\ pc' = "sp_exit"
                  /\ UNCHANGED <<fs, exc>>
             ELSE IF ok
             THEN /\ fs' = Plant(Mkdir(fs, temp), temp, tree)
                  /\ pc' = "sp_find"
                  /\ UNCHANGED <<ret, exc>>
             ELSE IF fmt = "7z"
             THEN \* the extractor exits non-zero
                  /\ fs' = Mkdir(fs, temp)
                  /\ ret' = FALSE
                  /\ pc' = "sp_exit"
                  /\ exc' = exc
             ELSE \* zipfile raises (not a zip file)
                  /\ fs' = Mkdir(fs, temp)
                  /\ exc' = TRUE
                  /\ pc' = "sp_exit"
                  /\ ret' = ret
    /\ UNCHANGED <<stdin_line, temp, sdk_root, made, platform, archive_path,
                   fs0>>
    /\ UNCHANGED <<MainVars, fs_in>>

\* Lines 145-149: find_sdk_root and the not-found return.
SpFind ==
    /\ pc = "sp_find"
    /\ \E r \in find_sdk_root(fs, temp) :
         /\ sdk_root' = r
         /\ IF r = NoDir
            THEN ret' = FALSE /\ pc' = "sp_exit"
            ELSE ret' = ret /\ pc' = "sp_move"
    /\ UNCHANGED <<stdin_line, temp, exc, made, platform, archive_path, fs0,
                   fs>>
    /\ UNCHANGED <<MainVars, fs_in>>

\* Lines 154-158: the move to the final location; the value returned after
\* the with block is True.
SpMove ==
    /\ pc = "sp_move"
    /\ LET f1 == Mkdir(fs, SDK_DIR)
           dst == target_dir(platform)
       IN  IF MoveRaises(f1, sdk_root, dst)
           THEN fs' = f1 /\ exc' = TRUE /\ ret' = ret
           ELSE fs' = Move(f1, sdk_root, dst) /\ ret' = TRUE /\ exc' = exc
    /\ pc' = "sp_exit"
    /\ UNCHANGED <<stdin_line, temp, sdk_root, made, platform, archive_path,
                   fs0>>
    /\ UNCHANGED <<MainVars, fs_in>>

\* Line 138: leaving the with block, by return, by falling out of it or by
\* an exception, cleans the scratch directory up.
SpExit ==
    /\ pc = "sp_exit"
    /\ fs' = Cleanup(fs, temp)
    /\ IF exc
       THEN pc' = "crashed" /\ exit_code' = 1
       ELSE pc' = "sp_ret" /\ exit_code' = exit_code
    /\ UNCHANGED <<stdin_line, temp, sdk_root, exc, ret, made, platform,
                   archive_path, fs0>>
    /\ UNCHANGED <<args, listing, archives, cur, success, rets, found, fs_in>>

----------------------------------------------------------------------------
(* main *)

NoArg == ""

\* Lines 238-245: the manual flags, in the order the code tests them.
ManualOverrides(a) ==
    LET d1 == IF a.win # NoPath THEN DictSet(<<>>, "win-x64", a.win) ELSE <<>>
        d2 == IF a.linux # NoPath THEN DictSet(d1, "linux-x64", a.linux) ELSE d1
        d3 == IF a.mac # NoPath THEN DictSet(d2, "mac-x64", a.mac) ELSE d2
    IN  IF a.mac_arm64 # NoPath THEN DictSet(d3, "mac-arm64", a.mac_arm64)
        ELSE d3

DefaultDirs == <<"downloads", "script", "parent">>

search_dirs_UserThenDefaults(a) ==
    IF a.archives_dir # NoArg THEN <<a.archives_dir>> \o DefaultDirs
    ELSE DefaultDirs

\* Lines 249-259: the directories searched.
search_dirs(a) ==
    IF a.archives_dir # NoArg THEN <<a.archives_dir>> ELSE DefaultDirs

RECURSIVE MergeFound_Overwrite(_, _, _)
MergeFound_Overwrite(arch, fnd, i) ==
    IF i > Len(fnd) THEN arch
    ELSE MergeFound_Overwrite(DictSet(arch, fnd[i].platform, fnd[i].path),
                              fnd, i + 1)

\* Lines 263-265: the entries of found, from entry i on, merged into arch.
RECURSIVE MergeFound(_, _, _)
MergeFound(arch, fnd, i) ==
    IF i > Len(fnd) THEN arch
    ELSE MergeFound(IF ~DictHas(arch, fnd[i].platform)
                    THEN DictSet(arch, fnd[i].platform, fnd[i].path)
                    ELSE arch,
                    fnd, i + 1)

\* Lines 261-265: the loop over the search directories, from directory i on.
RECURSIVE SearchLoop(_, _, _, _)
SearchLoop(ls, arch, dirs, i) ==
    IF i > Len(dirs) THEN arch
    ELSE SearchLoop(ls, MergeFound(arch, find_archives(ls, dirs[i]), 1),
                    dirs, i + 1)

\* Lines 234-265: the archive assignment.
CollectArchives(a, ls) ==
    LET manual == ManualOverrides(a)
    IN  IF Len(manual) < Len(Platforms)
        THEN SearchLoop(ls, manual, search_dirs(a), 1)
        ELSE manual

\* Line 304
ExitStatus(ok) == IF ok THEN 0 ELSE 1

Accumulate_Last(ok, r) == r

\* Line 282-283: the flag after one more call has returned r.
Accumulate(ok, r) == IF ~r THEN FALSE ELSE ok

SetupVars == <<platform, archive_path, stdin_line, temp, sdk_root, exc, ret,
               made, fs_in>>

\* Lines 217-232: the status report and --list.
MainStart ==
    /\ pc = "start"
    /\ IF args.list
       THEN pc' = "done" /\ exit_code' = 0
       ELSE pc' = "collect" /\ exit_code' = exit_code
    /\ UNCHANGED <<args, listing, fs0, fs, archives, cur, success,
                   rets, found>>
    /\ UNCHANGED SetupVars

\* Lines 234-280: collect the archives; none at all ends the run with 1.
MainCollect ==
    /\ pc = "collect"
    /\ archives' = CollectArchives(args, listing)
    /\ IF archives' = <<>>
       THEN pc' = "done" /\ exit_code' = 1 /\ UNCHANGED <<success, cur>>
       ELSE pc' = "loop" /\ success' = TRUE /\ cur' = 1 /\ exit_code' = exit_code
    /\ UNCHANGED <<args, listing, fs0, fs, rets, found>>
    /\ UNCHANGED SetupVars

\* Lines 281-282: the call of setup_platform for the next entry.
MainCall ==
    /\ pc = "loop"
    /\ cur <= Len(archives)
    /\ platform' = archives[cur].platform
    /\ archive_path' = archives[cur].path
    /\ stdin_line' = Unread
    /\ temp' = NoDir
    /\ sdk_root' = NoDir
    /\ exc' = FALSE
    /\ ret' = FALSE
    /\ fs_in' = fs
    /\ pc' = "sp_check"
    /\ UNCHANGED <<made, fs0, fs>>
    /\ UNCHANGED MainVars

\* Lines 282-283: setup_platform has returned.
MainReturn ==
    /\ pc = "sp_ret"
    /\ cur >= 1
    /\ success' = Accumulate(success, ret)
    /\ rets' = Append(rets, ret)
    /\ cur' = cur + 1
    /\ pc' = "loop"
    /\ UNCHANGED <<args, listing, fs0, fs, archives, exit_code, found>>
    /\ UNCHANGED SetupVars

\* Lines 285-304: the summary and the exit status.
MainExit ==
    /\ pc = "loop"
    /\ cur > Len(archives)
    /\ exit_code' = ExitStatus(success)
    /\ pc' = "done"
    /\ UNCHANGED <<args, listing, fs0, fs, archives, cur, success,
                   rets, found>>
    /\ UNCHANGED SetupVars

----------------------------------------------------------------------------
(* Inputs *)

MaxInput == 2

N_WIN_7Z == <<"w", "i", "n", "-", "x", "6", "4", ".", "7", "z">>
N_LINUX_ZIP == <<"l", "i", "n", "u", "x", "-", "x", "6", "4", ".", "z", "i", "p">>
N_SDK_7Z == <<"s", "d", "k", ".", "7", "z">>
N_SDK_RAR == <<"s", "d", "k", ".", "r", "a", "r">>

AllDirs == {"user", "downloads", "script", "parent"}

\* The states a target directory can be in before the run: absent (no
\* entry), an empty directory, a directory holding an unrelated
\* subdirectory named like an SDK wrapper, or a valid install.
TargetStates(p) ==
    [empty |-> {target_dir(p)},
     stale |-> {target_dir(p), target_dir(p) \o <<"ultralight">>},
     valid |-> {target_dir(p)} \cup {target_dir(p) \o t : t \in SdkTree}]

\* The disks with at most n target directories present.
Disks(n) ==
    {{TmpRoot} \cup UNION {IF k[p] = "absent" THEN {}
                           ELSE {SDK_DIR} \cup TargetStates(p)[k[p]]
                           : p \in PlatformSet}
       : k \in {k \in [PlatformSet -> {"absent", "empty", "stale", "valid"}] :
                  Cardinality({p \in PlatformSet : k[p] # "absent"}) <= n}}

\* The listings of the search directories with at most n files in all; the
\* user's directory may not exist.
Listings(names, n) ==
    {l \in [AllDirs -> [exists : BOOLEAN, files : SUBSET names]] :
        /\ \A d \in AllDirs : ~l[d].exists => l[d].files = {} /\ d = "user"
        /\ Cardinality({df \in AllDirs \X names : df[2] \in l[df[1]].files}) <= n}

ManualPaths(names) == {[dir |-> "manual", name |-> n] : n \in names}

\* The command lines with at most n manual flags.
Args(names, n) ==
    {a \in [archives_dir : {NoArg, "user"},
            win : ManualPaths(names) \cup {NoPath},
            linux : ManualPaths(names) \cup {NoPath},
            mac : ManualPaths(names) \cup {NoPath},
            mac_arm64 : ManualPaths(names) \cup {NoPath},
            list : BOOLEAN] :
        Cardinality({i \in 1..4 :
                       <<a.win, a.linux, a.mac, a.mac_arm64>>[i] # NoPath}) <= n}

NoArgs ==
    [archives_dir |-> NoArg, win |-> NoPath, linux |-> NoPath, mac |-> NoPath,
     mac_arm64 |-> NoPath, list |-> FALSE]

NoListing == [d \in AllDirs |-> [exists |-> TRUE, files |-> {}]]

\* Everything but the inputs, as it is when the process starts.
Idle ==
    /\ archives = <<>>
    /\ cur = 0
    /\ success = TRUE
    /\ rets = <<>>
    /\ exit_code = -1
    /\ platform = ""
    /\ archive_path = NoPath
    /\ stdin_line = Unread
    /\ temp = NoDir
    /\ sdk_root = NoDir
    /\ exc = FALSE
    /\ ret = FALSE
    /\ made = 0
    /\ found = <<>>
    /\ fs_in = fs

\* A run of main: a command line, the search directories and the disk, with
\* at most MaxInput manual flags, archive files and target directories in all.
Init ==
    /\ pc = "start"
    /\ \E nf \in 0..MaxInput :
         \E nm \in 0..(MaxInput - nf) :
            /\ listing \in Listings({N_WIN_7Z, N_LINUX_ZIP}, nf)
            /\ args \in Args({N_SDK_7Z, N_SDK_RAR}, nm)
            /\ fs0 \in Disks(MaxInput - nf - nm)
    /\ fs = fs0
    /\ Idle

Next ==
    \/ MainStart
    \/ MainCollect
    \/ MainCall
    \/ SpCheck
    \/ SpEnter
    \/ SpExtract
    \/ SpFind
    \/ SpMove
    \/ SpExit
    \/ MainReturn
    \/ MainExit

Spec == Init /\ [][Next]_vars

----------------------------------------------------------------------------
(* find_archives on its own: one call on one directory *)

MaxListing == 3

\* The subsets of S with at most n elements.
RECURSIVE SubsetsUpTo(_, _)
SubsetsUpTo(S, n) ==
    IF n = 0 THEN {{}}
    ELSE LET smaller == SubsetsUpTo(S, n - 1)
         IN  smaller \cup {A \cup {x} : A \in smaller, x \in S}

S_ULTRALIGHT_SDK ==
    <<"u", "l", "t", "r", "a", "l", "i", "g", "h", "t", "-", "s", "d", "k", "-">>
S_LINUX_X64 == <<"-", "l", "i", "n", "u", "x", "-", "x", "6", "4">>
N_UL_140_LINUX_7Z ==
    S_ULTRALIGHT_SDK \o <<"1", ".", "4", ".", "0">> \o S_LINUX_X64 \o EXT_7Z
N_UL_130_LINUX_7Z ==
    S_ULTRALIGHT_SDK \o <<"1", ".", "3", ".", "0">> \o S_LINUX_X64 \o EXT_7Z
N_LINUX64_7Z == <<"l", "i", "n", "u", "x", "6", "4", ".", "7", "z">>
N_WINDOWS_ZIP == <<"w", "i", "n", "d", "o", "w", "s", ".", "z", "i", "p">>
N_WIN_X64_RAR == <<"w", "i", "n", "-", "x", "6", "4", ".", "r", "a", "r">>
N_DARWIN_X64_ZIP ==
    <<"d", "a", "r", "w", "i", "n", "-", "x", "6", "4", ".", "z", "i", "p">>
N_MACOS_ARM64_7Z ==
    <<"m", "a", "c", "o", "s", "-", "a", "r", "m", "6", "4", ".", "7", "z">>
N_MAC_X64_ZIP == <<"m", "a", "c", "-", "x", "6", "4", ".", "z", "i", "p">>

FindNames ==
    {N_UL_140_LINUX_7Z, N_UL_130_LINUX_7Z, N_LINUX_ZIP, N_LINUX64_7Z, N_WIN_7Z,
     N_WINDOWS_ZIP, N_WIN_X64_RAR, N_DARWIN_X64_ZIP, N_MACOS_ARM64_7Z,
     N_MAC_X64_ZIP}

InitFind ==
    /\ pc = "find"
    /\ \E files \in SubsetsUpTo(FindNames, MaxListing), exists \in BOOLEAN :
         /\ ~exists => files = {}
         /\ listing = [NoListing EXCEPT
                          !["user"] = [exists |-> exists, files |-> files]]
    /\ args = NoArgs
    /\ fs0 = {TmpRoot}
    /\ fs = fs0
    /\ Idle

\* found = find_archives(search_dir)
FindArchivesCall ==
    /\ pc = "find"
    /\ found' = find_archives(listing, "user")
    /\ pc' = "find_done"
    /\ UNCHANGED <<args, listing, fs0, fs, archives, cur, success, rets,
                   exit_code>>
    /\ UNCHANGED SetupVars

NextFind == FindArchivesCall

SpecFind == InitFind /\ [][NextFind]_vars

----------------------------------------------------------------------------
(* find_sdk_root on its own: one call on one extracted tree *)

MaxDepth == 3
MaxMarkers == 2

WrapperNames == {"a", "b"}

\* The directories of depth at most n below the extracted directory.
WrapperPaths(n) == UNION {[1..k -> WrapperNames] : k \in 0..n}

\* The extracted trees: at most n SDK roots at depth at most depth, with or
\* without a plain file at the top.
ExtractedTrees(depth, n) ==
    {UNION {Wrapped(m) : m \in M} \cup extra :
        M \in SubsetsUpTo(WrapperPaths(depth), n),
        extra \in {{}, {<<"README">>}}}

ExtractedDir == TmpRoot \o <<TmpNames[1]>>

InitRoot ==
    /\ pc = "root"
    /\ \E tree \in ExtractedTrees(MaxDepth, MaxMarkers) :
         fs0 = Plant({TmpRoot, ExtractedDir}, ExtractedDir, tree)
    /\ fs = fs0
    /\ args = NoArgs
    /\ listing = NoListing
    /\ archives = <<>>
    /\ cur = 0
    /\ success = TRUE
    /\ rets = <<>>
    /\ exit_code = -1
    /\ platform = ""
    /\ archive_path = NoPath
    /\ stdin_line = Unread
    /\ temp = ExtractedDir
    /\ sdk_root = NoDir
    /\ exc = FALSE
    /\ ret = FALSE
    /\ made = 1
    /\ found = <<>>
    /\ fs_in = fs

\* sdk_root = find_sdk_root(temp_path)
FindSdkRootCall ==
    /\ pc = "root"
    /\ \E r \in find_sdk_root(fs, temp) : sdk_root' = r
    /\ pc' = "root_done"
    /\ UNCHANGED <<platform, archive_path, stdin_line, temp, exc, ret, made,
                   fs_in, fs0, fs>>
    /\ UNCHANGED MainVars

NextRoot == FindSdkRootCall

SpecRoot == InitRoot /\ [][NextRoot]_vars

----------------------------------------------------------------------------
(* Properties *)

\* The part of disk f at or below directory d.
Below(f, d) == {p \in f : IsPrefix(d, p)}

\* setup_platform has returned to its caller.
Returned == pc = "sp_ret"

\* The target directory held the marker file when setup_platform was entered,
\* so the overwrite prompt was shown.
HadInstall == Exists(fs_in, target_dir(platform) \o test_file)

TargetUnchanged ==
    Below(fs, target_dir(platform)) = Below(fs_in, target_dir(platform))

UnknownExtension == Suffix(archive_path.name) \notin {EXT_7Z, EXT_ZIP}

\* C1 as stated: on a valid install, every answer other than the string "y"
\* makes setup_platform return True with the target directory unchanged and
\* no scratch directory created.
C1_AnyAnswerButY ==
    (Returned /\ HadInstall /\ stdin_line # <<"y">>)
        => (ret /\ TargetUnchanged /\ temp = NoDir /\ fs = fs_in)

\* C1 amended: on a valid install, every answer that is not "y" once
\* surrounding whitespace is stripped and it is lowercased makes
\* setup_platform return True with the target directory, marker file
\* included, unchanged; nothing is extracted and no scratch directory is
\* created.
C1_DeclineKeepsInstall ==
    (Returned /\ HadInstall /\ Lower(Strip(stdin_line)) # <<"y">>)
        => (ret /\ TargetUnchanged /\ temp = NoDir /\ fs = fs_in
            /\ Exists(fs, target_dir(platform) \o test_file))

C1_Witness ==
    /\ Returned /\ HadInstall /\ stdin_line = <<"n">>
    /\ ret /\ temp = NoDir /\ fs = fs_in

\* C2 as stated: an archive whose extension is neither .7z nor .zip makes
\* setup_platform return False with the sdk directory as it was, whatever
\* the target directory held and whatever the operator answered.
C2_UnknownFormatNoChange ==
    (Returned /\ UnknownExtension)
        => (~ret /\ Below(fs, SDK_DIR) = Below(fs_in, SDK_DIR))

\* C2 amended: with such an archive, a target directory that is absent or
\* has no marker file is left as it was and the call returns False; on a
\* valid install a declined prompt returns True with the directory as it
\* was, and a confirmed prompt removes the target directory before the
\* format error makes the call return False.  No other directory changes.
C2_UnknownFormat ==
    (Returned /\ UnknownExtension)
        => /\ ~HadInstall => (~ret /\ fs = fs_in)
           /\ (HadInstall /\ Lower(Strip(stdin_line)) # <<"y">>)
                 => (ret /\ fs = fs_in)
           /\ (HadInstall /\ Lower(Strip(stdin_line)) = <<"y">>)
                 => (~ret /\ fs = fs_in \ Below(fs_in, target_dir(platform)))

C2_Witness ==
    /\ Returned /\ UnknownExtension /\ ~ret
    /\ Exists(fs_in, target_dir(platform)) /\ ~HadInstall
    /\ temp # NoDir

\* C3: once setup_platform has returned from a call that created a scratch
\* directory, neither that directory nor anything below it exists.
C3_ScratchRemoved ==
    (Returned /\ temp # NoDir) => Below(fs, temp) = {}

\* The scratch directory itself was the SDK root and was moved to the target.
C3_Witness ==
    /\ Returned /\ temp # NoDir /\ sdk_root = temp /\ ret
    /\ Exists(fs, target_dir(platform) \o test_file)

\* The archive assignment has just been completed: main is about to start
\* the install loop, or has exited because nothing was assigned.
Collected ==
    /\ \/ pc = "loop" /\ cur = 1
       \/ pc = "done" /\ archives = <<>>
    /\ ~args.list

ManualFlag(p) ==
    CASE p = "win-x64" -> args.win
      [] p = "linux-x64" -> args.linux
      [] p = "mac-x64" -> args.mac
      [] p = "mac-arm64" -> args.mac_arm64

\* The directories main passes to find_archives, in order.
Searched ==
    IF args.archives_dir # NoArg THEN <<args.archives_dir>>
    ELSE <<"downloads", "script", "parent">>

Yields(dir, p) == DictHas(find_archives(listing, dir), p)

\* C4: a platform given by a manual flag keeps the manual path whatever the
\* searched directories hold; a platform found by search keeps the path of
\* the first searched directory that matched; and the path passed to
\* setup_platform is the assigned one.
C4_NeverReassigned ==
    /\ Collected =>
          \A p \in PlatformSet :
             /\ ManualFlag(p) # NoPath => DictGet(archives, p) = ManualFlag(p)
             /\ (ManualFlag(p) = NoPath /\ DictHas(archives, p)) =>
                  \E i \in 1..Len(Searched) :
                     /\ Yields(Searched[i], p)
                     /\ \A j \in 1..(i - 1) : ~Yields(Searched[j], p)
                     /\ DictGet(archives, p)
                          = DictGet(find_archives(listing, Searched[i]), p)
    /\ pc = "sp_check" =>
          /\ archive_path = DictGet(archives, platform)
          /\ ManualFlag(platform) # NoPath
                => archive_path = ManualFlag(platform)

\* A manual path is passed on although a searched directory matches too.
C4_Witness ==
    /\ pc = "sp_check"
    /\ ManualFlag(platform) # NoPath
    /\ archive_path = ManualFlag(platform)
    /\ \E i \in 1..Len(Searched) : Yields(Searched[i], platform)

AllSucceeded == \A i \in 1..Len(rets) : rets[i]

\* C5: a run without --list that ends normally exits 0 exactly when at
\* least one archive was assigned and every call of setup_platform returned
\* True, and 1 otherwise; every assigned platform was attempted; and with
\* no archive assigned the disk is as it was.
C5_ExitStatus ==
    (pc = "done" /\ ~args.list) =>
        /\ exit_code \in {0, 1}
        /\ Len(rets) = Len(archives)
        /\ exit_code = 0 <=> (archives # <<>> /\ AllSucceeded)
        /\ exit_code = 1 <=> (archives = <<>> \/ ~AllSucceeded)
        /\ archives = <<>> => fs = fs0

\* One install failed, a later one succeeded, and the run exits 1.
C5_Witness ==
    /\ pc = "done" /\ ~args.list /\ exit_code = 1
    /\ Len(rets) = 2 /\ ~rets[1] /\ rets[2]

\* The directories at or below the extracted directory that hold the marker
\* file, and how deep a directory lies below the extracted directory.
MarkerDirs == {d \in fs : IsPrefix(temp, d) /\ HasMarker(fs, d)}

Depth(d) == Len(d) - Len(temp)

\* C6: find_sdk_root finds a root whenever the marker file exists at depth
\* 0, 1 or 2, returns None when it exists at depth 3 or deeper only, and
\* whatever it returns holds the marker file and lies at depth at most 2.
C6_FindSdkRootDepth ==
    pc = "root_done" =>
        /\ (\E d \in MarkerDirs : Depth(d) <= 2) => sdk_root # NoDir
        /\ (\A d \in MarkerDirs : Depth(d) >= 3) => sdk_root = NoDir
        /\ sdk_root # NoDir => (sdk_root \in MarkerDirs /\ Depth(sdk_root) <= 2)

\* A root at depth 2 is found although a deeper directory has the marker too.
C6_Witness ==
    /\ pc = "root_done" /\ sdk_root # NoDir /\ Depth(sdk_root) = 2
    /\ \E d \in MarkerDirs : Depth(d) = 3

\* The names of the listing that pattern i of platform p matches with
\* extension j.
Matching(files, p, i, j) ==
    {n \in files : GlobMatch(archive_patterns[p][i] \o Exts[j], n)}

\* Pair (i2, j2) is tried before pair (i, j).
Before(i2, j2, i, j) == i2 < i \/ (i2 = i /\ j2 < j)

SearchedFiles == IF listing["user"].exists THEN listing["user"].files ELSE {}

\* C7: for each platform the first (pattern, extension) pair, patterns in
\* listed order and .7z before .zip, that matches a file decides: the result
\* is the lexicographically last file matching that pair; a platform no
\* pair matches has no entry.  With the 1.4.0 and the 1.3.0 linux archives
\* as the only matches of the first linux pair, the 1.4.0 file is chosen.
C7_FindArchives ==
    pc = "find_done" =>
        /\ \A p \in PlatformSet :
             LET pairs == {ij \in (1..Len(archive_patterns[p])) \X (1..Len(Exts)) :
                             Matching(SearchedFiles, p, ij[1], ij[2]) # {}}
             IN  IF pairs = {} THEN ~DictHas(found, p)
                 ELSE LET first == CHOOSE ij \in pairs : \A o \in pairs :
                                      o = ij \/ Before(ij[1], ij[2], o[1], o[2])
                          hits == Matching(SearchedFiles, p, first[1], first[2])
                          got == DictGet(found, p)
                      IN  /\ DictHas(found, p)
                          /\ got.dir = "user"
                          /\ got.name \in hits
                          /\ \A n \in hits : n = got.name \/ StrLess(n, got.name)
        /\ Exts = <<EXT_7Z, EXT_ZIP>>
        /\ Matching(SearchedFiles, "linux-x64", 1, 1)
             = {N_UL_140_LINUX_7Z, N_UL_130_LINUX_7Z}
           => DictGet(found, "linux-x64").name = N_UL_140_LINUX_7Z

\* Both versions are present, with a .zip that also matches, and the 1.4.0
\* archive is the one returned.
C7_Witness ==
    /\ pc = "find_done"
    /\ {N_UL_140_LINUX_7Z, N_UL_130_LINUX_7Z, N_LINUX_ZIP} \subseteq SearchedFiles
    /\ DictGet(found, "linux-x64").name = N_UL_140_LINUX_7Z

\* The first directory of the sequence dirs that yields a match for p, as
\* an index, 0 if none does.
FirstYielding(dirs, p) ==
    LET hits == {i \in 1..Len(dirs) : Yields(dirs[i], p)}
    IN  IF hits = {} THEN 0 ELSE CHOOSE i \in hits : \A j \in hits : i <= j

AssignedFrom(dirs, p) ==
    LET i == FirstYielding(dirs, p)
    IN  IF i = 0 THEN ~DictHas(archives, p)
        ELSE DictGet(archives, p) = DictGet(find_archives(listing, dirs[i]), p)

\* C8 as stated: the directories searched are --archives-dir, if given,
\* followed by the default locations, and a platform without a manual flag
\* is assigned from the first of them that yields a match.
C8_UserThenDefaults ==
    Collected =>
        \A p \in PlatformSet :
            ManualFlag(p) = NoPath =>
                AssignedFrom(IF args.archives_dir # NoArg
                             THEN <<args.archives_dir, "downloads", "script",
                                    "parent">>
                             ELSE <<"downloads", "script", "parent">>, p)

\* C8 amended: the directories searched are --archives-dir alone when it is
\* given, and otherwise the default locations (Downloads, the script
\* directory, its parent) in that order.  A platform without a manual flag
\* is assigned from the first searched directory that yields a match for
\* it, and has no assignment when none does: with --archives-dir given, a
\* match in a default location is not used.
C8_UserOrDefaults ==
    Collected =>
        \A p \in PlatformSet :
            ManualFlag(p) = NoPath =>
                AssignedFrom(IF args.archives_dir # NoArg
                             THEN <<args.archives_dir>>
                             ELSE <<"downloads", "script", "parent">>, p)

\* --archives-dir is given, only a default location holds a match, and the
\* platform is left without an archive.
C8_Witness ==
    /\ Collected
    /\ args.archives_dir # NoArg
    /\ \E p \in PlatformSet :
         /\ ManualFlag(p) = NoPath
         /\ ~Yields(args.archives_dir, p)
         /\ Yields("downloads", p)
         /\ ~DictHas(archives, p)

\* C9: when the extracted directory lacks the marker file and one of its
\* immediate subdirectories has it, find_sdk_root returns an immediate
\* subdirectory, whatever the iteration order.
C9_LevelByLevel ==
    (pc = "root_done" /\ ~HasMarker(fs, temp)
       /\ \E d \in MarkerDirs : Depth(d) = 1)
        => (sdk_root # NoDir /\ Depth(sdk_root) = 1)

\* C10: whenever setup_platform returns True, the marker file exists at its
\* place directly under the platform's target directory.
C10_SuccessMeansValid ==
    (Returned /\ ret) => Exists(fs, target_dir(platform) \o test_file)

====
